---- MODULE Spec2Model ----
(***************************************************************************)
(* VehicleDetectionService (a singleton), the statistics view that reads   *)
(* it, the camera component that calls it, and the promise continuations   *)
(* of its async methods.  JavaScript runs every continuation to            *)
(* completion, so one action is one synchronous stretch of code between    *)
(* two awaits.                                                             *)
(*                                                                         *)
(* Units: scores and confidences are thousandths and Math.random() values  *)
(* are hundredths.  The box tensor is a Float32Array: a normalized         *)
(* coordinate is counted in units of 2^-27, which holds every float32      *)
(* value of the inputs exactly, and a pixel value in units of 2^-21, so    *)
(* that the arithmetic on them is exact as it is in double precision.      *)
(* The licensePlate of a detection, a random placeholder, is left out.     *)
(***************************************************************************)
EXTENDS Integers, Sequences, FiniteSets, TLC

VARIABLES
    model,              \* this.model: "null" or "graph"
    isModelLoaded,      \* this.isModelLoaded
    vehicleCount,       \* this.vehicleCount
    detectedVehicles,   \* this.detectedVehicles
    inits,              \* the initialize() calls in flight
    cyc,                \* the detectVehicles() calls in flight
    statsCount,         \* VehicleStats: vehicleCount state
    recentDetections,   \* VehicleStats: recentDetections state
    lastInit,           \* history: how the last completed initialize() ended
    recorded,           \* history: the lists detectVehicles returned since the last reset
    now,                \* the clock: what Date.now() returns, in milliseconds
    held,               \* a caller: the count object it got from getVehicleCount()
    exported,           \* a caller: the string it got from exportDetectionData()
    cam,                \* VehicleDetectionCamera: the capture cycles in flight
    isDetecting,        \* VehicleDetectionCamera: isDetecting state
    detectionIntervalRef, \* VehicleDetectionCamera: the handle kept, 0 for null
    lastDetection,      \* VehicleDetectionCamera: lastDetection state
    isRecording,        \* HomeScreen: isRecording state
    homeDetectedVehicles, \* HomeScreen: detectedVehicles state
    timers,             \* the interval timers the runtime keeps alive
    mounted,            \* VehicleDetectionCamera is mounted (HomeScreen shows the camera)
    modelStatus,        \* VehicleDetectionCamera: modelStatus state
    rendered,           \* the state values the closures of the last render hold
    pendingEffects,     \* the effects of the last render that have not run yet
    stopped,            \* history: the capture cycles in flight at a stop or the unmount
    predictions,        \* a direct call of the decoder: the output tensors it is given
    result,             \* a direct call of the decoder or the generator: its result
    seen                \* history: the categories the generator has produced

vars == <<model, isModelLoaded, vehicleCount, detectedVehicles, inits, cyc,
          statsCount, recentDetections, lastInit, recorded,
          now, held, exported, cam, isDetecting, detectionIntervalRef, lastDetection,
          isRecording, homeDetectedVehicles, timers, mounted, modelStatus, rendered,
          pendingEffects, stopped, predictions, result, seen>>

service == <<model, isModelLoaded, vehicleCount, detectedVehicles>>
store   == <<vehicleCount, detectedVehicles>>
adapter == <<model, isModelLoaded>>
camera  == <<cam, isDetecting, detectionIntervalRef, lastDetection, isRecording,
             homeDetectedVehicles, timers, mounted, modelStatus, rendered,
             pendingEffects, stopped>>
harness == <<predictions, result, seen>>
callers == <<now, held, exported, camera, harness>>

----------------------------------------------------------------------------
(* Bounds of the model *)

\* Spec: the whole service from its construction
MaxInits == 2
SpecCycles == 1
SpecMaxHistory == 1
\* SpecStore: overlapping detection cycles on the store
MaxCycles == 2
MaxHistory == 3
\* SpecStats: the store and the statistics view
StatsCycles == 1
StatsMaxHistory == 11
\* SpecSession: detection cycles while the clock advances
SessionCycles == 2
SessionMaxHistory == 2
MaxClock == 1
\* SpecReaders: the store and the callers that read and export it
ReaderCycles == 1
ReaderMaxHistory == 2
\* SpecDecoder: the entries of the output tensors
MaxEntries == 2
\* SpecCamera: the capture cycles of the camera component
CameraCycles == 2
CameraMaxHistory == 1
MaxTimers == 2
\* SpecMount: the camera component from its mount
MountCycles == 1
MountMaxHistory == 1
\* SpecTensors: the real detection cycles and their tensors
TensorCycles == 2
TensorMaxHistory == 1
\* SpecAgree: the store under cycles, frame requests, resets and readers
AgreeCycles == 2
AgreeMaxHistory == 2

----------------------------------------------------------------------------
(* Types and tables *)

VehicleType == {"car", "bus", "truck", "motorcycle", "bicycle", "van", "unknown"}

\* Object.values(VehicleType), in declaration order
VehicleTypeValues == <<"car", "bus", "truck", "motorcycle", "bicycle", "van", "unknown">>

\* Object.keys(this.vehicleCount)
VehicleCountKeys == VehicleType \cup {"total"}

ZeroCount == [k \in VehicleCountKeys |-> 0]

COCO_CLASSES == <<
    "person", "bicycle", "car", "motorcycle", "airplane", "bus", "train", "truck",
    "boat", "traffic light", "fire hydrant", "", "stop sign", "parking meter", "bench",
    "bird", "cat", "dog", "horse", "sheep", "cow", "elephant", "bear", "zebra",
    "giraffe", "", "backpack", "umbrella", "", "", "handbag", "tie", "suitcase",
    "frisbee", "skis", "snowboard", "sports ball", "kite", "baseball bat",
    "baseball glove", "skateboard", "surfboard", "tennis racket", "bottle", "",
    "wine glass", "cup", "fork", "knife", "spoon", "bowl", "banana", "apple",
    "sandwich", "orange", "broccoli", "carrot", "hot dog", "pizza", "donut", "cake",
    "chair", "couch", "potted plant", "bed", "", "dining table", "", "", "toilet", "",
    "tv", "laptop", "mouse", "remote", "keyboard", "cell phone", "microwave", "oven",
    "toaster", "sink", "refrigerator", "", "book", "clock", "vase", "scissors",
    "teddy bear", "hair drier", "toothbrush" >>

VEHICLE_CLASS_MAP ==
    [l \in {"bicycle", "car", "motorcycle", "bus", "truck"} |-> l]

confidenceThreshold == 300
InputSize == 320
RecentLimit == 10

\* the value of arithmetic on a typed-array read past the array's end
NaN == -1000000

----------------------------------------------------------------------------
(* Detection Decoder *)

\* arr[i] of a typed array, 0-based; NaN stands for undefined
Read(arr, i) == IF i >= 0 /\ i + 1 <= Len(arr) THEN arr[i + 1] ELSE NaN

\* units of a pixel value in one pixel (2^21), and units of a normalized
\* coordinate in one unit of a pixel value (2^6)
Px == 2097152
UnitRatio == 64

\* a coordinate times a number of pixels, as a pixel value
Times(a, b) == IF a = NaN \/ b = NaN THEN NaN ELSE a * (b \div UnitRatio)
Minus(a, b) == IF a = NaN \/ b = NaN THEN NaN ELSE a - b

\* `vehicle_${Date.now()}_${i}`: the string is the same for the same two numbers
Id(t, i) == <<"vehicle", t, i>>

\* mutant: the table is read one entry too low
ClassName_oneBelow(classIndex) ==
    IF classIndex >= 1 /\ classIndex <= Len(COCO_CLASSES)
          /\ COCO_CLASSES[classIndex] # ""
    THEN COCO_CLASSES[classIndex]
    ELSE "unknown"

\* this.COCO_CLASSES[classIndex] || 'unknown'
ClassName(classIndex) ==
    IF classIndex >= 0 /\ classIndex + 1 <= Len(COCO_CLASSES)
          /\ COCO_CLASSES[classIndex + 1] # ""
    THEN COCO_CLASSES[classIndex + 1]
    ELSE "unknown"

\* mutant: score >= confidenceThreshold
Keep_inclusive(raw, i) ==
    /\ Read(raw.scores, i) # NaN
    /\ Read(raw.scores, i) >= confidenceThreshold
    /\ ClassName(Read(raw.classes, i)) \in DOMAIN VEHICLE_CLASS_MAP

\* score > confidenceThreshold && this.VEHICLE_CLASS_MAP[className]
Keep(raw, i) ==
    /\ Read(raw.scores, i) # NaN
    /\ Read(raw.scores, i) > confidenceThreshold
    /\ ClassName(Read(raw.classes, i)) \in DOMAIN VEHICLE_CLASS_MAP

\* mutant: the row is read as [x1, y1, x2, y2]
DecodedDetection_rowOrder(raw, i) ==
    [ id |-> Id(now, i),
      type |-> VEHICLE_CLASS_MAP[ClassName(Read(raw.classes, i))],
      confidence |-> Read(raw.scores, i),
      bbox |-> [ x |-> Times(Read(raw.boxes, i * 4), InputSize),
                 y |-> Times(Read(raw.boxes, i * 4 + 1), InputSize),
                 width |-> Times(Minus(Read(raw.boxes, i * 4 + 2),
                                       Read(raw.boxes, i * 4)), InputSize),
                 height |-> Times(Minus(Read(raw.boxes, i * 4 + 3),
                                        Read(raw.boxes, i * 4 + 1)), InputSize) ],
      timestamp |-> now ]

DecodedDetection(raw, i) ==
    [ id |-> Id(now, i),
      type |-> VEHICLE_CLASS_MAP[ClassName(Read(raw.classes, i))],
      confidence |-> Read(raw.scores, i),
      bbox |-> [ x |-> Times(Read(raw.boxes, i * 4 + 1), InputSize),
                 y |-> Times(Read(raw.boxes, i * 4), InputSize),
                 width |-> Times(Minus(Read(raw.boxes, i * 4 + 3),
                                       Read(raw.boxes, i * 4 + 1)), InputSize),
                 height |-> Times(Minus(Read(raw.boxes, i * 4 + 2),
                                        Read(raw.boxes, i * 4)), InputSize) ],
      timestamp |-> now ]

\* i < maxDetections, with maxDetections = numDetections[0] (undefined compares false)
LoopRuns(raw, i) == Len(raw.numDetections) >= 1 /\ i < raw.numDetections[1]

RECURSIVE DecodeLoop(_, _)
DecodeLoop(raw, i) ==
    IF ~LoopRuns(raw, i) THEN <<>>
    ELSE (IF Keep(raw, i) THEN <<DecodedDetection(raw, i)>> ELSE <<>>)
            \o DecodeLoop(raw, i + 1)

\* predictions[k].data() on a missing tensor raises a TypeError inside the try
DecodeThrows(raw) == raw.len < 4

\* what the promise of postProcessDetections settles to
postProcessDetections(raw) ==
    IF DecodeThrows(raw)
    THEN [threw |-> FALSE, value |-> <<>>]
    ELSE [threw |-> FALSE, value |-> DecodeLoop(raw, 0)]

----------------------------------------------------------------------------
(* Simulation Generator *)

\* mutant: the filter is left out
vehicleTypes_unfiltered == VehicleTypeValues

\* Object.values(VehicleType).filter(type => type !== VehicleType.UNKNOWN)
vehicleTypes == SelectSeq(VehicleTypeValues, LAMBDA t : t # "unknown")

SimulatedDetection(d, i) ==
    [ id |-> Id(now, i),
      type |-> vehicleTypes[((d.type * Len(vehicleTypes)) \div 100) + 1],
      confidence |-> 700 + d.conf * 3,
      bbox |-> [ x |-> ((d.x * 300) \div 100) * Px,
                 y |-> ((d.y * 300) \div 100) * Px,
                 width |-> (50 + (d.w * 100) \div 100) * Px,
                 height |-> (30 + (d.h * 80) \div 100) * Px ],
      timestamp |-> now ]

\* rnd: the values Math.random() returns during the call
simulateDetection(rnd) ==
    IF rnd.none < 30 THEN <<>>
    ELSE LET numDetections == ((rnd.count * 3) \div 100) + 1
         IN  [i \in 1..numDetections |-> SimulatedDetection(rnd.draws[i], i - 1)]

----------------------------------------------------------------------------
(* Aggregation Store *)

\* number of entries of a list that a count key stands for
CountIn(detections, k) ==
    IF k = "total" THEN Len(detections)
    ELSE Cardinality({i \in 1..Len(detections) : detections[i].type = k})

\* mutant: the per-category counts are incremented, total is not
updateVehicleCounts_noTotal(vc, detections) ==
    [k \in DOMAIN vc |-> IF k = "total" THEN vc[k] ELSE vc[k] + CountIn(detections, k)]

\* mutant: the counts are overwritten with the tally of this call's list
updateVehicleCounts_overwrite(vc, detections) ==
    [k \in DOMAIN vc |-> CountIn(detections, k)]

RECURSIVE updateVehicleCounts(_, _)
updateVehicleCounts(vc, detections) ==
    IF detections = <<>> THEN vc
    ELSE LET t == Head(detections).type
             one == [vc EXCEPT ![t] = @ + 1]
         IN  updateVehicleCounts([one EXCEPT !["total"] = @ + 1], Tail(detections))

\* mutant: unshift instead of push
push_front(history, detections) == detections \o history

\* this.detectedVehicles.push(...detections)
push(history, detections) == history \o detections

\* mutant: only the VehicleType keys are zeroed, total is left
resetCounts_keepsTotal(vc, history) ==
    [vehicleCount |-> [k \in DOMAIN vc |-> IF k = "total" THEN vc[k] ELSE 0],
     detectedVehicles |-> <<>>]

\* mutant: the counts are zeroed, the history is kept
resetCounts_keepsHistory(vc, history) ==
    [vehicleCount |-> [k \in DOMAIN vc |-> 0], detectedVehicles |-> history]

\* Object.keys(this.vehicleCount).forEach(key => ... = 0); this.detectedVehicles = []
resetCounts(vc, history) ==
    [vehicleCount |-> [k \in DOMAIN vc |-> 0], detectedVehicles |-> <<>>]

\* { ...this.vehicleCount }
getVehicleCount(vc) == [k \in DOMAIN vc |-> vc[k]]

\* [...this.detectedVehicles]
getDetectedVehicles(history) == [i \in 1..Len(history) |-> history[i]]

\* Array.prototype.slice(start) for an integer start
slice(arr, start) ==
    LET len == Len(arr)
        k == IF start < 0 THEN (IF len + start > 0 THEN len + start ELSE 0)
             ELSE (IF start < len THEN start ELSE len)
    IN  SubSeq(arr, k + 1, len)

----------------------------------------------------------------------------
(* Inputs the environment supplies *)

NoRaw == [len |-> 0, boxes |-> <<>>, classes |-> <<>>, scores |-> <<>>,
          numDetections |-> <<>>]

\* two entries, a car above the threshold and a person
RawCarPerson ==
    [len |-> 4, boxes |-> <<10, 20, 50, 60, 0, 0, 100, 100>>,
     classes |-> <<2, 0>>, scores |-> <<900, 800>>, numDetections |-> <<2>>]

\* two vehicles above the threshold
RawBusTruck ==
    [len |-> 4, boxes |-> <<10, 20, 50, 60, 30, 30, 90, 80>>,
     classes |-> <<5, 7>>, scores |-> <<301, 600>>, numDetections |-> <<2>>]

\* nothing above the threshold
RawNothing ==
    [len |-> 4, boxes |-> <<10, 20, 50, 60>>,
     classes |-> <<2>>, scores |-> <<300>>, numDetections |-> <<1>>]

\* the numDetections tensor is missing
RawMissingTensor ==
    [len |-> 3, boxes |-> <<10, 20, 50, 60>>,
     classes |-> <<2>>, scores |-> <<900>>, numDetections |-> <<>>]

\* numDetections announces two entries, scores and boxes hold one
RawShort ==
    [len |-> 4, boxes |-> <<10, 20, 50, 60>>,
     classes |-> <<2, 3>>, scores |-> <<900>>, numDetections |-> <<2>>]

\* one simulated vehicle: the Math.random() values of one loop iteration
DrawCar == [type |-> 0,  conf |-> 0,  x |-> 10, y |-> 20, w |-> 0,  h |-> 0]
DrawVan == [type |-> 99, conf |-> 99, x |-> 99, y |-> 0,  w |-> 99, h |-> 95]

\* the Math.random() values of one simulateDetection() call
Randoms(first, counts, D) ==
    { [none |-> a, count |-> b, draws |-> d] :
        a \in first, b \in counts, d \in [1..3 -> D] }

\* the callers of the service and what the environment supplies to them
Env ==
    [ cycles |-> 1..SpecCycles,
      inits |-> 1..MaxInits,
      maxHistory |-> SpecMaxHistory,
      rand |-> Randoms({0, 50}, {0}, {DrawVan}),
      preds |-> {RawCarPerson} ]

EnvStore ==
    [ cycles |-> 1..MaxCycles,
      inits |-> {},
      maxHistory |-> MaxHistory,
      rand |-> Randoms({0, 50}, {0, 50, 99}, {DrawVan}),
      preds |-> {RawCarPerson, RawBusTruck, RawNothing, RawMissingTensor, RawShort} ]

EnvStats ==
    [ cycles |-> 1..StatsCycles,
      inits |-> {},
      maxHistory |-> StatsMaxHistory,
      rand |-> Randoms({0, 50}, {0, 99}, {DrawVan}),
      preds |-> {RawBusTruck} ]

----------------------------------------------------------------------------
(* State *)

IdleCycle ==
    [ pc |-> "idle", path |-> "none", dets |-> <<>>, pred |-> NoRaw,
      failedAt |-> "none", outcome |-> "pending", overlap |-> FALSE,
      tensors |-> {} ]

IdleInit == [pc |-> "idle", failed |-> FALSE, outcome |-> "pending", by |-> "none"]

InFlight(c) == cyc[c].pc \notin {"idle", "done"}

\* the adapter state of the specification, read off the service
AdapterState ==
    IF isModelLoaded THEN "READY"
    ELSE IF lastInit = "none" THEN "UNINITIALIZED" ELSE "FALLBACK"

\* a caller that has not read the counts yet
NoHeld == [obj |-> "none", val |-> ZeroCount]

\* a caller that has not exported yet
NoExport == [counts |-> <<>>, detections |-> <<>>, timestamp |-> <<>>]

\* the callers of env before their first call: the camera component is
\* mounted with isDetecting false and no interval, nothing is held
Mounted(env) ==
    /\ now = 0
    /\ held = NoHeld
    /\ exported = NoExport
    /\ cam = [c \in env.cycles |-> "idle"]
    /\ isDetecting = FALSE
    /\ detectionIntervalRef = 0
    /\ lastDetection = <<>>
    /\ isRecording = FALSE
    /\ homeDetectedVehicles = <<>>
    /\ timers = {}
    /\ mounted = TRUE
    /\ rendered = [isDetecting |-> FALSE, isRecording |-> FALSE]
    /\ stopped = {}

\* no direct call of the decoder or the generator
NoDirectCall ==
    /\ predictions = NoRaw
    /\ result = <<>>
    /\ seen = {}

\* the service after construction, with the callers of env; the camera
\* component has rendered once and its mount effect has not run yet
Constructed(env) ==
    /\ model = "null"
    /\ isModelLoaded = FALSE
    /\ vehicleCount = ZeroCount
    /\ detectedVehicles = <<>>
    /\ inits = [i \in env.inits |-> IdleInit]
    /\ cyc = [c \in env.cycles |-> IdleCycle]
    /\ statsCount = ZeroCount
    /\ recentDetections = <<>>
    /\ lastInit = "none"
    /\ recorded = <<>>
    /\ Mounted(env)
    /\ modelStatus = "loading"
    /\ pendingEffects = {"mount"}

Fresh(env) == Constructed(env) /\ NoDirectCall

\* the service after the initialize() of the camera's mount effect loaded the
\* model, or failed; initializeService has set modelStatus after it
Initialized(env) ==
    /\ \/ model = "graph" /\ isModelLoaded = TRUE /\ lastInit = "ok"
       \/ model = "null" /\ isModelLoaded = FALSE /\ lastInit = "fail"
    /\ vehicleCount = ZeroCount
    /\ detectedVehicles = <<>>
    /\ inits = [i \in env.inits |-> IdleInit]
    /\ cyc = [c \in env.cycles |-> IdleCycle]
    /\ statsCount = ZeroCount
    /\ recentDetections = <<>>
    /\ recorded = <<>>
    /\ Mounted(env)
    /\ modelStatus = "loaded"
    /\ pendingEffects = {}
    /\ NoDirectCall

Init == Fresh(Env)

----------------------------------------------------------------------------
(* initialize() *)

\* the call, up to await tf.ready()
Initialize(i) ==
    /\ inits[i].pc = "idle"
    /\ inits' = [inits EXCEPT ![i] = [IdleInit EXCEPT !.pc = "ready"]]
    /\ UNCHANGED <<service, cyc, statsCount, recentDetections, lastInit, recorded, callers>>

\* tf.ready() resolved; up to await tf.loadGraphModel(...)
TfReady(i) ==
    /\ inits[i].pc = "ready"
    /\ inits' = [inits EXCEPT ![i].pc = "load"]
    /\ UNCHANGED <<service, cyc, statsCount, recentDetections, lastInit, recorded, callers>>

\* tf.ready() rejected: the catch block
TfReadyFails(i) ==
    /\ inits[i].pc = "ready"
    /\ isModelLoaded' = FALSE
    /\ inits' = [inits EXCEPT ![i].pc = "done", ![i].failed = TRUE,
                              ![i].outcome = "returned"]
    /\ lastInit' = "fail"
    /\ UNCHANGED <<model, store, cyc, statsCount, recentDetections, recorded, callers>>

\* loadGraphModel resolved: this.model = ...; this.isModelLoaded = true
LoadModel(i) ==
    /\ inits[i].pc = "load"
    /\ model' = "graph"
    /\ isModelLoaded' = TRUE
    /\ inits' = [inits EXCEPT ![i].pc = "done", ![i].failed = FALSE,
                              ![i].outcome = "returned"]
    /\ lastInit' = "ok"
    /\ UNCHANGED <<store, cyc, statsCount, recentDetections, recorded, callers>>

\* mutant: the catch block does not clear isModelLoaded
LoadModelFails_keepsFlag(i) ==
    /\ inits[i].pc = "load"
    /\ inits' = [inits EXCEPT ![i].pc = "done", ![i].failed = TRUE,
                              ![i].outcome = "returned"]
    /\ lastInit' = "fail"
    /\ UNCHANGED <<adapter, store, cyc, statsCount, recentDetections, recorded, callers>>

\* loadGraphModel rejected: the catch block
LoadModelFails(i) ==
    /\ inits[i].pc = "load"
    /\ isModelLoaded' = FALSE
    /\ inits' = [inits EXCEPT ![i].pc = "done", ![i].failed = TRUE,
                              ![i].outcome = "returned"]
    /\ lastInit' = "fail"
    /\ UNCHANGED <<model, store, cyc, statsCount, recentDetections, recorded, callers>>

\* the continuation after await VehicleDetectionService.initialize() of a
\* caller other than the component that modelStatus belongs to
InitializeReturn(i) ==
    /\ inits[i].pc = "done" /\ inits[i].by = "none"
    /\ inits' = [inits EXCEPT ![i] = IdleInit]
    /\ UNCHANGED <<service, cyc, statsCount, recentDetections, lastInit, recorded, callers>>

----------------------------------------------------------------------------
(* detectVehicles(imageUri) *)

Begin(c, path) ==
    [IdleCycle EXCEPT !.path = path,
                      !.overlap = \E o \in DOMAIN cyc \ {c} : InFlight(o)]

\* isModelLoaded && model: the call, up to the await in loadImage
DetectVehiclesReal(c) ==
    /\ cyc[c].pc = "idle"
    /\ isModelLoaded /\ model # "null"
    /\ cyc' = [cyc EXCEPT ![c] = [Begin(c, "real") EXCEPT !.pc = "load"]]
    /\ UNCHANGED <<service, inits, statsCount, recentDetections, lastInit, recorded, callers>>

\* the else branch: simulate, count, store and return in one stretch
DetectVehiclesSimulated(c, env) ==
    /\ cyc[c].pc = "idle"
    /\ ~(isModelLoaded /\ model # "null")
    /\ \E rnd \in env.rand :
         LET simulatedDetections == simulateDetection(rnd) IN
         /\ Len(detectedVehicles) + Len(simulatedDetections) <= env.maxHistory
         /\ vehicleCount' = updateVehicleCounts(vehicleCount, simulatedDetections)
         /\ detectedVehicles' = push(detectedVehicles, simulatedDetections)
         /\ cyc' = [cyc EXCEPT ![c] =
                      [Begin(c, "sim") EXCEPT !.pc = "done",
                                              !.dets = simulatedDetections,
                                              !.outcome = "returned"]]
         /\ recorded' = IF simulatedDetections = <<>> THEN recorded
                        ELSE Append(recorded, simulatedDetections)
    /\ UNCHANGED <<adapter, inits, statsCount, recentDetections, lastInit, callers>>

\* img.onload and fromPixels; preprocessImage, which disposes resized and
\* normalized and returns batched; this.model.predict is called
LoadImage(c) ==
    /\ cyc[c].pc = "load"
    /\ cyc' = [cyc EXCEPT ![c].pc = "predict", ![c].tensors = {"img", "preprocessed"}]
    /\ UNCHANGED <<service, inits, statsCount, recentDetections, lastInit, recorded, callers>>

\* img.onerror, or fromPixels raises: runRealDetection's catch returns []
LoadImageFails(c) ==
    /\ cyc[c].pc = "load"
    /\ cyc' = [cyc EXCEPT ![c].pc = "record", ![c].dets = <<>>, ![c].failedAt = "load"]
    /\ UNCHANGED <<service, inits, statsCount, recentDetections, lastInit, recorded, callers>>

\* preprocessImage raises at resizeBilinear, at div or at expandDims, after
\* fromPixels made img: runRealDetection's catch returns [] and disposes nothing
PreprocessFails(c) ==
    /\ cyc[c].pc = "load"
    /\ \E made \in {{}, {"resized"}, {"resized", "normalized"}} :
         cyc' = [cyc EXCEPT ![c].pc = "record", ![c].dets = <<>>,
                            ![c].failedAt = "preprocess",
                            ![c].tensors = {"img"} \cup made]
    /\ UNCHANGED <<service, inits, statsCount, recentDetections, lastInit, recorded, callers>>

\* predict resolved with the output tensors; postProcessDetections is called
Predict(c, env) ==
    /\ cyc[c].pc = "predict"
    /\ \E raw \in env.preds :
         cyc' = [cyc EXCEPT ![c].pc = "decode", ![c].pred = raw,
                            ![c].tensors = @ \cup {"predictions"}]
    /\ UNCHANGED <<service, inits, statsCount, recentDetections, lastInit, recorded, callers>>

\* mutant: a failed predict falls back to one simulated vehicle
PredictFails_simulates(c) ==
    /\ cyc[c].pc = "predict"
    /\ cyc' = [cyc EXCEPT ![c].pc = "record",
                          ![c].dets = <<SimulatedDetection(DrawVan, 0)>>,
                          ![c].failedAt = "predict"]
    /\ UNCHANGED <<service, inits, statsCount, recentDetections, lastInit, recorded, callers>>

\* mutant: a failed predict switches the service to simulation
PredictFails_degrades(c) ==
    /\ cyc[c].pc = "predict"
    /\ isModelLoaded' = FALSE
    /\ cyc' = [cyc EXCEPT ![c].pc = "record", ![c].dets = <<>>, ![c].failedAt = "predict"]
    /\ UNCHANGED <<model, store, inits, statsCount, recentDetections, lastInit, recorded, callers>>

\* predict raises: runRealDetection's catch returns []
PredictFails(c) ==
    /\ cyc[c].pc = "predict"
    /\ cyc' = [cyc EXCEPT ![c].pc = "record", ![c].dets = <<>>, ![c].failedAt = "predict"]
    /\ UNCHANGED <<service, inits, statsCount, recentDetections, lastInit, recorded, callers>>

\* postProcessDetections up to its return (its four awaits touch no shared state)
Decode(c) ==
    /\ cyc[c].pc = "decode"
    /\ cyc' = [cyc EXCEPT ![c].pc = "dispose",
                          ![c].dets = postProcessDetections(cyc[c].pred).value,
                          ![c].failedAt = IF DecodeThrows(cyc[c].pred)
                                          THEN "decode" ELSE "none"]
    /\ UNCHANGED <<service, inits, statsCount, recentDetections, lastInit, recorded, callers>>

\* runRealDetection after the decoder: img.dispose(), preprocessed.dispose(),
\* predictions.forEach(tensor => tensor.dispose()); return detections
Dispose(c) ==
    /\ cyc[c].pc = "dispose"
    /\ cyc' = [cyc EXCEPT ![c].pc = "record", ![c].pred = NoRaw,
                          ![c].tensors = @ \ {"img", "preprocessed", "predictions"}]
    /\ UNCHANGED <<service, inits, statsCount, recentDetections, lastInit, recorded, callers>>

\* detectVehicles after await runRealDetection: count, store, return
Record(c, env) ==
    /\ cyc[c].pc = "record"
    /\ Len(detectedVehicles) + Len(cyc[c].dets) <= env.maxHistory
    /\ vehicleCount' = updateVehicleCounts(vehicleCount, cyc[c].dets)
    /\ detectedVehicles' = push(detectedVehicles, cyc[c].dets)
    /\ cyc' = [cyc EXCEPT ![c].pc = "done", ![c].outcome = "returned"]
    /\ recorded' = IF cyc[c].dets = <<>> THEN recorded
                   ELSE Append(recorded, cyc[c].dets)
    /\ UNCHANGED <<adapter, inits, statsCount, recentDetections, lastInit, callers>>

\* the caller's continuation after await detectVehicles(...)
DetectVehiclesReturn(c) ==
    /\ cyc[c].pc = "done"
    /\ cyc' = [cyc EXCEPT ![c] = IdleCycle]
    /\ UNCHANGED <<service, inits, statsCount, recentDetections, lastInit, recorded, callers>>

\* processVideoFrame(frameData): returns simulateDetection(), stores nothing
\* (the list goes to the caller; no field of the service is read or written)
ProcessVideoFrame == UNCHANGED vars

----------------------------------------------------------------------------
(* VehicleStats *)

\* updateStats(): the two setters
UpdateStats ==
    /\ statsCount' = getVehicleCount(vehicleCount)
    /\ recentDetections' = slice(getDetectedVehicles(detectedVehicles), -RecentLimit)
    /\ UNCHANGED <<service, inits, cyc, lastInit, recorded, callers>>

\* the Reset button's onPress: resetCounts(); updateStats()
ResetStats ==
    LET r == resetCounts(vehicleCount, detectedVehicles) IN
    /\ vehicleCount' = r.vehicleCount
    /\ detectedVehicles' = r.detectedVehicles
    /\ statsCount' = getVehicleCount(r.vehicleCount)
    /\ recentDetections' = slice(getDetectedVehicles(r.detectedVehicles), -RecentLimit)
    /\ recorded' = <<>>
    /\ UNCHANGED <<adapter, inits, cyc, lastInit, callers>>

----------------------------------------------------------------------------
(* The service with its callers *)

Next ==
    \/ \E i \in Env.inits :
         \/ Initialize(i)
         \/ TfReady(i)
         \/ TfReadyFails(i)
         \/ LoadModel(i)
         \/ LoadModelFails(i)
         \/ InitializeReturn(i)
    \/ \E c \in Env.cycles :
         \/ DetectVehiclesReal(c)
         \/ DetectVehiclesSimulated(c, Env)
         \/ LoadImage(c)
         \/ LoadImageFails(c)
         \/ Predict(c, Env)
         \/ PredictFails(c)
         \/ Decode(c)
         \/ Dispose(c)
         \/ Record(c, Env)
         \/ DetectVehiclesReturn(c)
    \/ ProcessVideoFrame
    \/ ResetStats

Spec == Init /\ [][Next]_vars

----------------------------------------------------------------------------
(* Detection cycles that overlap, on a service already initialized *)

InitStore == Fresh(EnvStore) \/ Initialized(EnvStore)

NextStore ==
    \/ \E c \in EnvStore.cycles :
         \/ DetectVehiclesReal(c)
         \/ DetectVehiclesSimulated(c, EnvStore)
         \/ LoadImage(c)
         \/ LoadImageFails(c)
         \/ Predict(c, EnvStore)
         \/ PredictFails(c)
         \/ Decode(c)
         \/ Dispose(c)
         \/ Record(c, EnvStore)
         \/ DetectVehiclesReturn(c)
    \/ ResetStats

SpecStore == InitStore /\ [][NextStore]_vars

----------------------------------------------------------------------------
(* The statistics view over a long history *)

InitStats == Initialized(EnvStats)

NextStats ==
    \/ \E c \in EnvStats.cycles :
         \/ DetectVehiclesReal(c)
         \/ DetectVehiclesSimulated(c, EnvStats)
         \/ LoadImage(c)
         \/ LoadImageFails(c)
         \/ Predict(c, EnvStats)
         \/ PredictFails(c)
         \/ Decode(c)
         \/ Dispose(c)
         \/ Record(c, EnvStats)
         \/ DetectVehiclesReturn(c)
    \/ UpdateStats
    \/ ResetStats

SpecStats == InitStats /\ [][NextStats]_vars

----------------------------------------------------------------------------
(* Detection cycles while the clock advances *)

\* two vehicles, with the rows [0.5, 0.6, 0.1, 0.2] (the corners in reverse
\* order) and [-0.1, -0.2, 0.5, 0.5] (a corner left of and above the frame)
RawInverted ==
    [len |-> 4, boxes |-> <<67108864, 80530640, 13421773, 26843546,
                            -13421773, -26843546, 67108864, 67108864>>,
     classes |-> <<2, 7>>, scores |-> <<900, 900>>, numDetections |-> <<2>>]

EnvSession ==
    [ cycles |-> 1..SessionCycles,
      inits |-> {},
      maxHistory |-> SessionMaxHistory,
      rand |-> Randoms({0, 50}, {0}, {DrawVan}),
      preds |-> {RawCarPerson, RawInverted} ]

\* a millisecond passes
Tick ==
    /\ now < MaxClock
    /\ now' = now + 1
    /\ UNCHANGED <<service, inits, cyc, statsCount, recentDetections, lastInit, recorded,
                   held, exported, camera, harness>>

InitSession == Initialized(EnvSession)

NextSession ==
    \/ \E c \in EnvSession.cycles :
         \/ DetectVehiclesReal(c)
         \/ DetectVehiclesSimulated(c, EnvSession)
         \/ LoadImage(c)
         \/ LoadImageFails(c)
         \/ Predict(c, EnvSession)
         \/ PredictFails(c)
         \/ Decode(c)
         \/ Dispose(c)
         \/ Record(c, EnvSession)
         \/ DetectVehiclesReturn(c)
    \/ Tick
    \/ ResetStats

SpecSession == InitSession /\ [][NextSession]_vars

----------------------------------------------------------------------------
(* Exporter and the copy-on-read accessors *)

\* the value null of JavaScript and of JSON
Null == -2000000

\* JSON.stringify of a number: NaN is written as null
JsonNumber(v) == IF v = NaN THEN <<"null">> ELSE <<"num", v>>

\* Date.prototype.toJSON: the ISO-8601 string, milliseconds kept
toISOString(t) == <<"iso", t>>

JsonDetection(d) ==
    [ id |-> d.id,
      type |-> d.type,
      confidence |-> JsonNumber(d.confidence),
      bbox |-> [f \in DOMAIN d.bbox |-> JsonNumber(d.bbox[f])],
      timestamp |-> toISOString(d.timestamp) ]

\* JSON.stringify({ counts, detections, timestamp: new Date().toISOString() }, null, 2)
exportDetectionData(vc, history, t) ==
    [ counts |-> [k \in DOMAIN vc |-> JsonNumber(vc[k])],
      detections |-> [i \in 1..Len(history) |-> JsonDetection(history[i])],
      timestamp |-> toISOString(t) ]

\* mutant: the accessor hands out the object it was given
Spread_same(obj) == obj

\* { ...o }: a new object, whatever o is
Spread(obj) == "copy"

\* a caller reads the counts: const count = service.getVehicleCount()
GetVehicleCount ==
    /\ held' = [obj |-> Spread("store"), val |-> getVehicleCount(vehicleCount)]
    /\ UNCHANGED <<service, inits, cyc, statsCount, recentDetections, lastInit, recorded,
                   now, exported, camera, harness>>

\* the caller assigns to a key of the object it holds: count[k] = v
CallerModifies(k, v) ==
    /\ held.obj # "none"
    /\ held.val[k] # v
    /\ held' = [held EXCEPT !.val[k] = v]
    /\ vehicleCount' = IF held.obj = "store" THEN [vehicleCount EXCEPT ![k] = v]
                       ELSE vehicleCount
    /\ UNCHANGED <<adapter, detectedVehicles, inits, cyc, statsCount, recentDetections,
                   lastInit, recorded, now, exported, camera, harness>>

\* a caller exports: const data = service.exportDetectionData()
ExportDetectionData ==
    /\ exported' = exportDetectionData(vehicleCount, detectedVehicles, now)
    /\ UNCHANGED <<service, inits, cyc, statsCount, recentDetections, lastInit, recorded,
                   now, held, camera, harness>>

\* two entries announced and scored, the box tensor holds one row
RawShortBoxes ==
    [len |-> 4, boxes |-> <<10, 20, 50, 60>>,
     classes |-> <<2, 5>>, scores |-> <<900, 800>>, numDetections |-> <<2>>]

EnvReaders ==
    [ cycles |-> 1..ReaderCycles,
      inits |-> {},
      maxHistory |-> ReaderMaxHistory,
      rand |-> Randoms({0, 50}, {0}, {DrawVan}),
      preds |-> {RawShortBoxes} ]

InitReaders == Initialized(EnvReaders)

NextReaders ==
    \/ \E c \in EnvReaders.cycles :
         \/ DetectVehiclesReal(c)
         \/ DetectVehiclesSimulated(c, EnvReaders)
         \/ LoadImage(c)
         \/ LoadImageFails(c)
         \/ Predict(c, EnvReaders)
         \/ PredictFails(c)
         \/ Decode(c)
         \/ Dispose(c)
         \/ Record(c, EnvReaders)
         \/ DetectVehiclesReturn(c)
    \/ GetVehicleCount
    \/ \E k \in {"car", "total"} : \E v \in {0, 7} : CallerModifies(k, v)
    \/ ExportDetectionData
    \/ ResetStats

SpecReaders == InitReaders /\ [][NextReaders]_vars

----------------------------------------------------------------------------
(* The simulation generator, called directly *)

\* Math.random() values that select each of the entries of vehicleTypes
SimDraws ==
    { [type |-> t, conf |-> 50, x |-> 50, y |-> 50, w |-> 50, h |-> 50] :
        t \in {0, 17, 34, 50, 67, 99} }

\* the values of one call; the draws the loop does not reach are not made
SimRandoms ==
    { r \in Randoms({29, 30}, {0, 33, 34, 66, 67, 99}, SimDraws) :
        \A i \in 1..3 :
            (r.none < 30 \/ i > ((r.count * 3) \div 100) + 1) => r.draws[i].type = 0 }

EnvSim ==
    [ cycles |-> {},
      inits |-> {},
      maxHistory |-> 0,
      rand |-> SimRandoms,
      preds |-> {} ]

\* this.simulateDetection(), as processVideoFrame and detectVehicles call it
SimulateDetection ==
    /\ \E rnd \in EnvSim.rand :
         /\ result' = simulateDetection(rnd)
         /\ seen' = seen \cup {result'[i].type : i \in 1..Len(result')}
    /\ UNCHANGED <<service, inits, cyc, statsCount, recentDetections, lastInit, recorded,
                   now, held, exported, camera, predictions>>

InitSim == Fresh(EnvSim)

NextSim == SimulateDetection

SpecSim == InitSim /\ [][NextSim]_vars

----------------------------------------------------------------------------
(* initialize() with a runtime or a model source that may never answer *)

\* the promise of tf.ready() never settles: initialize() stays at its await
TfReadyNever(i) ==
    /\ inits[i].pc = "ready"
    /\ inits' = [inits EXCEPT ![i].pc = "never"]
    /\ UNCHANGED <<service, cyc, statsCount, recentDetections, lastInit, recorded, callers>>

\* the promise of tf.loadGraphModel(...) never settles
LoadModelNever(i) ==
    /\ inits[i].pc = "load"
    /\ inits' = [inits EXCEPT ![i].pc = "never"]
    /\ UNCHANGED <<service, cyc, statsCount, recentDetections, lastInit, recorded, callers>>

NextLive ==
    \/ \E i \in Env.inits :
         \/ Initialize(i)
         \/ TfReady(i)
         \/ TfReadyFails(i)
         \/ TfReadyNever(i)
         \/ LoadModel(i)
         \/ LoadModelFails(i)
         \/ LoadModelNever(i)
         \/ InitializeReturn(i)
    \/ \E c \in Env.cycles :
         \/ DetectVehiclesReal(c)
         \/ DetectVehiclesSimulated(c, Env)
         \/ LoadImage(c)
         \/ LoadImageFails(c)
         \/ Predict(c, Env)
         \/ PredictFails(c)
         \/ Decode(c)
         \/ Dispose(c)
         \/ Record(c, Env)
         \/ DetectVehiclesReturn(c)

\* the event loop runs every continuation that is ready, and each awaited
\* promise takes one of its outcomes
FairLive ==
    \A i \in Env.inits :
        /\ WF_vars(TfReady(i) \/ TfReadyFails(i) \/ TfReadyNever(i))
        /\ WF_vars(LoadModel(i) \/ LoadModelFails(i) \/ LoadModelNever(i))
        /\ WF_vars(InitializeReturn(i))

SpecLive == Init /\ [][NextLive]_vars /\ FairLive

----------------------------------------------------------------------------
(* The detection decoder, called directly *)

\* float32 values, in units of 2^-27: -0.1f, 0, 0.1f, 0.2f, 0.5, 0.6f, 1
BoxValues == {-13421773, 0, 13421773, 26843546, 67108864, 80530640, 134217728}

\* the Float32Array that Float32Array.of(0.1, 0.2, 0.5, 0.6) is
ExampleRow == <<13421773, 26843546, 67108864, 80530640>>

\* n entries of scores around the threshold, vehicles and a person among
\* them, of which the count tensor announces the first k
RawThreshold ==
    { [len |-> 4,
       boxes |-> [j \in 1..(4 * MaxEntries) |-> ExampleRow[((j - 1) % 4) + 1]],
       classes |-> cs, scores |-> ss, numDetections |-> <<k>>] :
         cs \in [1..MaxEntries -> {0, 2, 7}],
         ss \in [1..MaxEntries -> {299, 300, 301}],
         k \in 0..MaxEntries }

\* one entry of every class index of the table, and one on each side of it
RawClasses ==
    { [len |-> 4, boxes |-> ExampleRow,
       classes |-> <<c>>, scores |-> <<900>>, numDetections |-> <<1>>] :
         c \in -1..91 }

\* one car with every box row over BoxValues
RawBoxes ==
    { [len |-> 4, boxes |-> row,
       classes |-> <<2>>, scores |-> <<900>>, numDetections |-> <<1>>] :
         row \in [1..4 -> BoxValues] }

DecoderInputs ==
    RawThreshold \cup RawClasses \cup RawBoxes
        \cup {RawMissingTensor, RawShort, RawShortBoxes}

EnvDecoder ==
    [ cycles |-> {},
      inits |-> {},
      maxHistory |-> 0,
      rand |-> {},
      preds |-> DecoderInputs ]

\* await this.postProcessDetections(predictions)
PostProcessDetections ==
    /\ result' = postProcessDetections(predictions).value
    /\ UNCHANGED <<service, inits, cyc, statsCount, recentDetections, lastInit, recorded,
                   now, held, exported, camera, predictions, seen>>

InitDecoder ==
    /\ Constructed(EnvDecoder)
    /\ predictions \in EnvDecoder.preds
    /\ result = <<>>
    /\ seen = {}

NextDecoder == PostProcessDetections

SpecDecoder == InitDecoder /\ [][NextDecoder]_vars

----------------------------------------------------------------------------
(* VehicleDetectionCamera in HomeScreen, on a service already initialized *)

EnvCamera ==
    [ cycles |-> 1..CameraCycles,
      inits |-> {},
      maxHistory |-> CameraMaxHistory,
      rand |-> Randoms({0, 50}, {0}, {DrawVan}),
      preds |-> {RawCarPerson} ]

\* a capture cycle of the component is between its start and its last step
Capturing(k) == cam[k] # "idle"

\* the service and the callers other than the component
others == <<service, inits, cyc, statsCount, recentDetections, lastInit, recorded,
            now, held, exported, harness>>

\* HomeScreen.toggleRecording: setIsRecording(!isRecording), with the
\* isRecording of the render that made the handler
ToggleRecording ==
    /\ mounted
    /\ isRecording' = ~rendered.isRecording
    /\ UNCHANGED <<others, cam, isDetecting, detectionIntervalRef, timers, lastDetection,
                   homeDetectedVehicles, mounted, modelStatus, rendered, pendingEffects,
                   stopped>>

\* React renders again after a state change: the handlers and the effect of
\* the new render hold the new values; the effects of the render before
\* have run by then
Render ==
    /\ mounted
    /\ "recording" \notin pendingEffects
    /\ rendered # [isDetecting |-> isDetecting, isRecording |-> isRecording]
    /\ rendered' = [isDetecting |-> isDetecting, isRecording |-> isRecording]
    /\ pendingEffects' = pendingEffects \cup {"recording"}
    /\ UNCHANGED <<others, cam, isDetecting, detectionIntervalRef, timers, lastDetection,
                   isRecording, homeDetectedVehicles, mounted, modelStatus, stopped>>

\* startDetection(): if (isDetecting) return; setIsDetecting(true);
\* detectionIntervalRef.current = setInterval(...)
startDetection ==
    /\ ~rendered.isDetecting
    /\ Cardinality(timers) < MaxTimers
    /\ isDetecting' = TRUE
    /\ LET handle == CHOOSE h \in 1..(Cardinality(timers) + 1) : h \notin timers
       IN  /\ timers' = timers \cup {handle}
           /\ detectionIntervalRef' = handle
    /\ UNCHANGED stopped

\* stopDetection(): setIsDetecting(false); clearInterval(detectionIntervalRef.current);
\* detectionIntervalRef.current = null
stopDetection ==
    /\ isDetecting' = FALSE
    /\ timers' = timers \ {detectionIntervalRef}
    /\ detectionIntervalRef' = 0
    /\ stopped' = stopped \cup {k \in DOMAIN cam : cam[k] = "interval"}

\* the Start/Stop button: onPress={isDetecting ? stopDetection : startDetection}
PressStartStop ==
    /\ mounted
    /\ IF rendered.isDetecting THEN stopDetection ELSE startDetection
    /\ UNCHANGED <<others, cam, isRecording, lastDetection, homeDetectedVehicles,
                   mounted, modelStatus, rendered, pendingEffects>>

\* the effect on [isRecording, isDetecting, startDetection, stopDetection]
RecordingEffect ==
    /\ mounted
    /\ "recording" \in pendingEffects
    /\ pendingEffects' = pendingEffects \ {"recording"}
    /\ IF rendered.isRecording /\ ~rendered.isDetecting THEN startDetection
       ELSE IF ~rendered.isRecording /\ rendered.isDetecting THEN stopDetection
       ELSE UNCHANGED <<isDetecting, timers, detectionIntervalRef, stopped>>
    /\ UNCHANGED <<others, cam, isRecording, lastDetection, homeDetectedVehicles,
                   mounted, modelStatus, rendered>>

\* HomeScreen shows the statistics: the component unmounts, and the cleanup of
\* its mount effect runs clearInterval(detectionIntervalRef.current)
Unmount ==
    /\ mounted
    /\ mounted' = FALSE
    /\ timers' = timers \ {detectionIntervalRef}
    /\ pendingEffects' = {}
    /\ stopped' = stopped \cup {k \in DOMAIN cam : Capturing(k)}
    /\ UNCHANGED <<others, cam, isDetecting, detectionIntervalRef, lastDetection,
                   isRecording, homeDetectedVehicles, modelStatus, rendered>>

\* the interval callback, up to await cameraRef.current.takePictureAsync(...);
\* cameraRef.current is null once the component is unmounted
IntervalFires(k) ==
    /\ timers # {}
    /\ mounted
    /\ ~Capturing(k) /\ cyc[k].pc = "idle"
    /\ cam' = [cam EXCEPT ![k] = "interval"]
    /\ UNCHANGED <<others, isRecording, isDetecting, detectionIntervalRef, timers,
                   lastDetection, homeDetectedVehicles, mounted, modelStatus, rendered,
                   pendingEffects, stopped>>

\* capturePhoto(), up to await cameraRef.current.takePictureAsync(...)
\* (saveToLibraryAsync, awaited next, touches nothing of the component)
CapturePhoto(k) ==
    /\ mounted
    /\ ~Capturing(k) /\ cyc[k].pc = "idle"
    /\ cam' = [cam EXCEPT ![k] = "button"]
    /\ UNCHANGED <<others, isRecording, isDetecting, detectionIntervalRef, timers,
                   lastDetection, homeDetectedVehicles, mounted, modelStatus, rendered,
                   pendingEffects, stopped>>

\* takePictureAsync (or saveToLibraryAsync) rejected: the catch block
TakePictureFails(k) ==
    /\ Capturing(k) /\ cyc[k].pc = "idle"
    /\ cam' = [cam EXCEPT ![k] = "idle"]
    /\ stopped' = stopped \ {k}
    /\ UNCHANGED <<others, isRecording, isDetecting, detectionIntervalRef, timers,
                   lastDetection, homeDetectedVehicles, mounted, modelStatus, rendered,
                   pendingEffects>>

\* after await detectVehicles(photo.uri): setLastDetection(detections), which
\* does nothing on an unmounted component; onDetection?.(detections), which is
\* HomeScreen.handleDetection
OnDetection(k) ==
    /\ Capturing(k) /\ cyc[k].pc = "done"
    /\ lastDetection' = IF mounted THEN cyc[k].dets ELSE lastDetection
    /\ homeDetectedVehicles' = homeDetectedVehicles \o cyc[k].dets
    /\ cyc' = [cyc EXCEPT ![k] = IdleCycle]
    /\ cam' = [cam EXCEPT ![k] = "idle"]
    /\ stopped' = stopped \ {k}
    /\ UNCHANGED <<service, inits, statsCount, recentDetections, lastInit, recorded,
                   now, held, exported, harness,
                   isRecording, isDetecting, detectionIntervalRef, timers,
                   mounted, modelStatus, rendered, pendingEffects>>

\* the mount effect: initializeService(), up to await
\* VehicleDetectionService.initialize(), which runs up to await tf.ready()
InitializeService(i) ==
    /\ mounted
    /\ "mount" \in pendingEffects
    /\ inits[i].pc = "idle"
    /\ pendingEffects' = pendingEffects \ {"mount"}
    /\ modelStatus' = "loading"
    /\ inits' = [inits EXCEPT ![i] = [IdleInit EXCEPT !.pc = "ready", !.by = "camera"]]
    /\ UNCHANGED <<service, cyc, statsCount, recentDetections, lastInit, recorded,
                   now, held, exported, harness,
                   cam, isDetecting, detectionIntervalRef, timers, lastDetection,
                   isRecording, homeDetectedVehicles, mounted, rendered, stopped>>

\* initializeService() after the await: setModelStatus('loaded') when
\* initialize() returned, the catch block's setModelStatus('fallback') when it
\* threw; neither does anything on an unmounted component
InitializeServiceReturn(i) ==
    /\ inits[i].pc = "done" /\ inits[i].by = "camera"
    /\ inits' = [inits EXCEPT ![i] = IdleInit]
    /\ modelStatus' = IF ~mounted THEN modelStatus
                      ELSE IF inits[i].outcome = "returned" THEN "loaded"
                      ELSE "fallback"
    /\ UNCHANGED <<service, cyc, statsCount, recentDetections, lastInit, recorded,
                   now, held, exported, harness,
                   cam, isDetecting, detectionIntervalRef, timers, lastDetection,
                   isRecording, homeDetectedVehicles, mounted, rendered, pendingEffects,
                   stopped>>

InitCamera == Initialized(EnvCamera)

\* takePictureAsync resolved: detectVehicles(photo.uri) is called and runs
NextCamera ==
    \/ ToggleRecording
    \/ Render
    \/ PressStartStop
    \/ RecordingEffect
    \/ Unmount
    \/ \E k \in EnvCamera.cycles :
         \/ IntervalFires(k)
         \/ CapturePhoto(k)
         \/ TakePictureFails(k)
         \/ Capturing(k) /\ DetectVehiclesReal(k)
         \/ Capturing(k) /\ DetectVehiclesSimulated(k, EnvCamera)
         \/ LoadImage(k)
         \/ LoadImageFails(k)
         \/ Predict(k, EnvCamera)
         \/ PredictFails(k)
         \/ Decode(k)
         \/ Dispose(k)
         \/ Record(k, EnvCamera)
         \/ OnDetection(k)

SpecCamera == InitCamera /\ [][NextCamera]_vars

----------------------------------------------------------------------------
(* VehicleDetectionCamera from its mount, on a service just constructed *)

EnvMount ==
    [ cycles |-> 1..MountCycles,
      inits |-> {1},
      maxHistory |-> MountMaxHistory,
      rand |-> Randoms({0, 50}, {0}, {DrawVan}),
      preds |-> {RawCarPerson} ]

InitMount == Fresh(EnvMount)

NextMount ==
    \/ \E i \in EnvMount.inits :
         \/ InitializeService(i)
         \/ TfReady(i)
         \/ TfReadyFails(i)
         \/ LoadModel(i)
         \/ LoadModelFails(i)
         \/ InitializeServiceReturn(i)
    \/ Unmount
    \/ \E k \in EnvMount.cycles :
         \/ CapturePhoto(k)
         \/ TakePictureFails(k)
         \/ Capturing(k) /\ DetectVehiclesReal(k)
         \/ Capturing(k) /\ DetectVehiclesSimulated(k, EnvMount)
         \/ LoadImage(k)
         \/ LoadImageFails(k)
         \/ Predict(k, EnvMount)
         \/ PredictFails(k)
         \/ Decode(k)
         \/ Dispose(k)
         \/ Record(k, EnvMount)
         \/ OnDetection(k)

SpecMount == InitMount /\ [][NextMount]_vars

----------------------------------------------------------------------------
(* The tensors of the real detection cycles *)

EnvTensors ==
    [ cycles |-> 1..TensorCycles,
      inits |-> {},
      maxHistory |-> TensorMaxHistory,
      rand |-> Randoms({0, 50}, {0}, {DrawVan}),
      preds |-> {RawCarPerson, RawMissingTensor} ]

\* the tensors that the calls in flight and the calls that returned hold
LiveTensors == UNION {cyc[c].tensors : c \in DOMAIN cyc}

InitTensors == Initialized(EnvTensors)

NextTensors ==
    \/ \E c \in EnvTensors.cycles :
         \/ DetectVehiclesReal(c)
         \/ DetectVehiclesSimulated(c, EnvTensors)
         \/ LoadImage(c)
         \/ LoadImageFails(c)
         \/ PreprocessFails(c)
         \/ Predict(c, EnvTensors)
         \/ PredictFails(c)
         \/ Decode(c)
         \/ Dispose(c)
         \/ Record(c, EnvTensors)
         \/ DetectVehiclesReturn(c)
    \/ ResetStats

SpecTensors == InitTensors /\ [][NextTensors]_vars

----------------------------------------------------------------------------
(* The store under detection cycles, frame requests, resets and readers *)

EnvAgree ==
    [ cycles |-> 1..AgreeCycles,
      inits |-> {},
      maxHistory |-> AgreeMaxHistory,
      rand |-> Randoms({0, 50}, {0}, {DrawVan}),
      preds |-> {RawCarPerson, RawBusTruck} ]

InitAgree == Fresh(EnvAgree) \/ Initialized(EnvAgree)

NextAgree ==
    \/ \E c \in EnvAgree.cycles :
         \/ DetectVehiclesReal(c)
         \/ DetectVehiclesSimulated(c, EnvAgree)
         \/ LoadImage(c)
         \/ LoadImageFails(c)
         \/ Predict(c, EnvAgree)
         \/ PredictFails(c)
         \/ Decode(c)
         \/ Dispose(c)
         \/ Record(c, EnvAgree)
         \/ DetectVehiclesReturn(c)
    \/ ProcessVideoFrame
    \/ GetVehicleCount
    \/ ResetStats

SpecAgree == InitAgree /\ [][NextAgree]_vars

----------------------------------------------------------------------------
(* Properties *)

RECURSIVE Flatten(_)
Flatten(lists) == IF lists = <<>> THEN <<>> ELSE Head(lists) \o Flatten(Tail(lists))

IsPrefix(s, t) == Len(s) <= Len(t) /\ SubSeq(t, 1, Len(s)) = s

\* the last min(n, Len(s)) entries of s, oldest first
LastN(s, n) ==
    LET m == IF Len(s) < n THEN Len(s) ELSE n
    IN  [i \in 1..m |-> s[Len(s) - m + i]]

\* cycle c's detectVehicles call settles in this step
Settles(c) == cyc[c].pc # "done" /\ cyc'[c].pc = "done"

\* initialize call i settles in this step
InitSettles(i) == inits[i].pc # "done" /\ inits'[i].pc = "done"

\* raw outputs that are not four tensors of consistent length with K <= N
Malformed(raw) ==
    \/ raw.len < 4
    \/ Len(raw.numDetections) # 1
    \/ Len(raw.scores) # Len(raw.classes)
    \/ Len(raw.boxes) # 4 * Len(raw.classes)
    \/ (Len(raw.numDetections) >= 1 /\ raw.numDetections[1] > Len(raw.classes))

\* C1: in every state a reader can see, getVehicleCount().total is the sum of
\* the seven per-category counts.
C1_TotalIsSumOfCategories ==
    LET vc == getVehicleCount(vehicleCount)
    IN  vc["total"] = vc["car"] + vc["bus"] + vc["truck"] + vc["motorcycle"]
                        + vc["bicycle"] + vc["van"] + vc["unknown"]

\* two categories counted, while another cycle is between two of its awaits
C1_Witness ==
    /\ vehicleCount["bus"] >= 1 /\ vehicleCount["car"] >= 1
    /\ vehicleCount["total"] >= 3
    /\ \E c \in DOMAIN cyc : InFlight(c)

\* C2: right after resetCounts() every count, total included, is 0 and the
\* history is empty, whatever the state before.
C2_ResetClearsEverything ==
    [][ResetStats =>
          /\ \A k \in VehicleCountKeys : getVehicleCount(vehicleCount')[k] = 0
          /\ getDetectedVehicles(detectedVehicles') = <<>>]_vars

\* a call returned a non-empty list that the store no longer holds, with the
\* model loaded and another cycle still in flight
C2_Witness ==
    /\ isModelLoaded
    /\ detectedVehicles = <<>> /\ vehicleCount = ZeroCount
    /\ \E c \in DOMAIN cyc : cyc[c].pc = "done" /\ cyc[c].dets # <<>>
    /\ \E c \in DOMAIN cyc : InFlight(c)

\* C3: a detectVehicles call that returns L appends exactly L, any step other
\* than a reset keeps the earlier entries in place, and updateStats shows the
\* last min(10, length) entries, oldest first.
C3_HistoryAppendOnly ==
    [][ /\ \A c \in DOMAIN cyc :
             Settles(c) => detectedVehicles' = detectedVehicles \o cyc'[c].dets
        /\ detectedVehicles' = <<>> \/ IsPrefix(detectedVehicles, detectedVehicles')
        /\ UpdateStats =>
             recentDetections' = LastN(getDetectedVehicles(detectedVehicles'), RecentLimit)
      ]_vars

\* the view shows ten of more than ten entries, and not the first ten
C3_Witness ==
    /\ Len(detectedVehicles) > RecentLimit
    /\ Len(recentDetections) = RecentLimit
    /\ recentDetections = LastN(detectedVehicles, RecentLimit)
    /\ recentDetections # SubSeq(detectedVehicles, 1, RecentLimit)

\* C4: whatever the interleaving of cycles and resets, the store holds exactly
\* the lists returned since the last reset, in the order they were recorded,
\* and every count is the tally of those lists (total: the sum of their lengths).
C4_NoLostUpdate ==
    /\ detectedVehicles = Flatten(recorded)
    /\ \A k \in VehicleCountKeys : vehicleCount[k] = CountIn(Flatten(recorded), k)

\* two cycles that were in flight together have both recorded vehicles
C4_Witness ==
    \E c \in DOMAIN cyc : \E o \in DOMAIN cyc \ {c} :
        /\ cyc[c].pc = "done" /\ cyc[c].path = "real" /\ cyc[c].dets # <<>>
        /\ cyc[o].pc = "done" /\ cyc[o].path = "real" /\ cyc[o].dets # <<>>
        /\ cyc[o].overlap
        /\ Len(recorded) >= 2

\* C5: a cycle in which loading the image, predict or the decoder raised
\* returns the empty list, and no step of it changes counts or history.
C5_FailedCycleChangesNothing ==
    [][\A c \in DOMAIN cyc :
          (cyc'[c] # cyc[c] /\ cyc'[c].failedAt # "none")
             => (store' = store /\ cyc'[c].dets = <<>>)]_vars

\* a cycle whose predict raised and one whose decoder raised have returned,
\* on a store that holds earlier detections
C5_Witness ==
    /\ detectedVehicles # <<>>
    /\ \E c \in DOMAIN cyc : cyc[c].pc = "done" /\ cyc[c].failedAt = "predict"
    /\ \E c \in DOMAIN cyc : cyc[c].pc = "done" /\ cyc[c].failedAt = "decode"

\* C6: every initialize() call settles by returning, with isModelLoaded false
\* when tf.ready() or the model load failed and true when both succeeded.
C6_InitializeAbsorbsFailure ==
    [][\A i \in DOMAIN inits :
          InitSettles(i) => /\ inits'[i].outcome = "returned"
                            /\ isModelLoaded' = ~inits'[i].failed]_vars

\* an initialize() failed after an earlier one had loaded the model
C6_Witness ==
    /\ model = "graph" /\ ~isModelLoaded
    /\ \E i \in DOMAIN inits : inits[i].pc = "done" /\ inits[i].failed

\* C7: a detectVehicles call whose predict raised settles with an error.
C7_InferenceErrorSurfaced ==
    \A c \in DOMAIN cyc :
        (cyc[c].pc = "done" /\ cyc[c].failedAt = "predict") => cyc[c].outcome = "threw"

\* C8: on malformed raw outputs the decoder settles with an error and yields
\* no detections.
C8_MalformedOutputRaises ==
    \A c \in DOMAIN cyc :
        (cyc[c].pc = "dispose" /\ Malformed(cyc[c].pred))
           => /\ postProcessDetections(cyc[c].pred).threw
              /\ cyc[c].dets = <<>>

\* C9: a detectVehicles call takes the simulation path only in FALLBACK.
C9_SimulatesOnlyInFallback ==
    [][\A c \in DOMAIN cyc :
          (cyc[c].path # "sim" /\ cyc'[c].path = "sim") => AdapterState = "FALLBACK"]_vars

\* C10: model and isModelLoaded change only in the step that settles an
\* initialize() call, and an initialize() that ends as the last one did leaves
\* both as they were.
C10_ReadinessOnlyByInitialize ==
    [][ /\ adapter' # adapter => \E i \in DOMAIN inits : InitSettles(i)
        /\ \A i \in DOMAIN inits :
             (InitSettles(i) /\ lastInit = (IF inits'[i].failed THEN "fail" ELSE "ok"))
                => adapter' = adapter
      ]_vars

\* two initialize() calls in a row have failed, a detect call ran simulated
\* in between or after, and the service is still in fallback
C10_Witness ==
    /\ ~isModelLoaded /\ lastInit = "fail"
    /\ \E i \in DOMAIN inits : \E j \in DOMAIN inits \ {i} :
          /\ inits[i].pc = "done" /\ inits[i].failed
          /\ inits[j].pc = "done" /\ inits[j].failed
    /\ \E c \in DOMAIN cyc : cyc[c].pc = "done" /\ cyc[c].path = "sim"


\* C11: any two distinct entries of the history have different ids, also when
\* they were created by different detect cycles in the same millisecond.
C11_IdsUnique ==
    \A i \in 1..Len(detectedVehicles) : \A j \in 1..Len(detectedVehicles) :
        i # j => detectedVehicles[i].id # detectedVehicles[j].id


\* JSON.parse of a number or null, as a reader of the export applies it
ParseNumber(token) == IF token = <<"null">> THEN Null ELSE token[2]

\* JSON.parse of an exported string: strings stay strings, also the dates
JSONparse(text) ==
    [ counts |-> [k \in DOMAIN text.counts |-> ParseNumber(text.counts[k])],
      detections |->
        [i \in 1..Len(text.detections) |->
           LET e == text.detections[i] IN
           [ id |-> e.id,
             type |-> e.type,
             confidence |-> ParseNumber(e.confidence),
             bbox |-> [f \in DOMAIN e.bbox |-> ParseNumber(e.bbox[f])],
             timestamp |-> e.timestamp ]],
      timestamp |-> text.timestamp ]

\* an entry read back from an export is the entry of the history: the same id,
\* category, confidence and box, its timestamp as the ISO-8601 string of the date
SameDetection(parsed, d) ==
    /\ parsed.id = d.id
    /\ parsed.type = d.type
    /\ parsed.confidence = d.confidence
    /\ parsed.bbox = d.bbox
    /\ parsed.timestamp = toISOString(d.timestamp)

\* C12: parsing what exportDetectionData() returns yields the counts of
\* getVehicleCount() and the list of getDetectedVehicles(), same length and
\* order, as they are at the call; the call changes neither counts nor history.
C12_ExportRoundTrip ==
    [][ExportDetectionData =>
          LET parsed == JSONparse(exported')
              list == getDetectedVehicles(detectedVehicles)
          IN  /\ \A k \in VehicleCountKeys :
                   parsed.counts[k] = getVehicleCount(vehicleCount)[k]
              /\ Len(parsed.detections) = Len(list)
              /\ \A i \in 1..Len(list) : SameDetection(parsed.detections[i], list[i])
              /\ store' = store]_vars

\* C13: an assignment to the object getVehicleCount() returned leaves the
\* counts of the store, and so what getVehicleCount() and exportDetectionData()
\* report next, as they were.
C13_CountIsACopy ==
    [][(\E k \in VehicleCountKeys : \E v \in {0, 7} : CallerModifies(k, v)) =>
          /\ getVehicleCount(vehicleCount') = getVehicleCount(vehicleCount)
          /\ exportDetectionData(vehicleCount', detectedVehicles', now').counts
               = exportDetectionData(vehicleCount, detectedVehicles, now).counts]_vars

\* the caller holds counts it has changed, and an export made afterwards
\* carries the counts of the store, not the caller's
C13_Witness ==
    /\ held.obj = "copy"
    /\ held.val["car"] = 7 /\ held.val["total"] = 0
    /\ vehicleCount["car"] = 1 /\ vehicleCount["total"] = 2
    /\ exported.detections # <<>>
    /\ JSONparse(exported).counts = vehicleCount


\* C14 as stated: a call of the generator returns 0 to 3 detections, never of
\* category unknown, and all the categories it produces are among five.
C14_FiveKnownTypes ==
    /\ Len(result) >= 0 /\ Len(result) <= 3
    /\ "unknown" \notin seen
    /\ Cardinality(seen) <= 5

\* C14, amended: a call of the generator returns 0 to 3 detections, and the
\* category of each is one of the six types other than unknown (van included).
C14_SimulationBounds ==
    /\ Len(result) >= 0 /\ Len(result) <= 3
    /\ \A i \in 1..Len(result) :
          result[i].type \in {"car", "bus", "truck", "motorcycle", "bicycle", "van"}
    /\ seen \subseteq {"car", "bus", "truck", "motorcycle", "bicycle", "van"}

\* calls have produced every one of the six categories, the last one three
\* detections, a van among them
C14_Witness ==
    /\ Len(result) = 3
    /\ \E i \in 1..Len(result) : result[i].type = "van"
    /\ seen = {"car", "bus", "truck", "motorcycle", "bicycle", "van"}


\* C15: every call of initialize() eventually completes, and the adapter is
\* then READY or FALLBACK.
C15_InitializeCompletes ==
    \A i \in Env.inits :
        (inits[i].pc = "ready")
            ~> (inits[i].pc = "done" /\ AdapterState \in {"READY", "FALLBACK"})


\* the index of the entry a decoded detection was made from, as its id has it
IndexOf(d) == d.id[3]

ClaimedCategory ==
    (1 :> "bicycle") @@ (2 :> "car") @@ (3 :> "motorcycle") @@ (5 :> "bus")
        @@ (7 :> "truck")

Times320(coordinate) == coordinate * 5

\* the box of entry i is made of its row [y1, x1, y2, x2] as C18 says
BoxOfRow(d, boxes) ==
    LET i == IndexOf(d)
        y1 == boxes[4 * i + 1]
        x1 == boxes[4 * i + 2]
        y2 == boxes[4 * i + 3]
        x2 == boxes[4 * i + 4]
    IN  /\ d.bbox.x = Times320(x1)
        /\ d.bbox.y = Times320(y1)
        /\ d.bbox.width = Times320(x2 - x1)
        /\ d.bbox.height = Times320(y2 - y1)

Abs(v) == IF v < 0 THEN -v ELSE v

\* the box is {x: 64, y: 32, width: 128, height: 128}, to within tolerance
NearExampleBox(bbox, tolerance) ==
    /\ Abs(bbox.x - 64 * Px) <= tolerance
    /\ Abs(bbox.y - 32 * Px) <= tolerance
    /\ Abs(bbox.width - 128 * Px) <= tolerance
    /\ Abs(bbox.height - 128 * Px) <= tolerance

\* C18 as stated: the box of a kept entry is x = x1*320, y = y1*320,
\* width = (x2-x1)*320, height = (y2-y1)*320 of its row [y1, x1, y2, x2], and
\* the row [0.1, 0.2, 0.5, 0.6] gives exactly {x:64, y:32, width:128, height:128}.
C18_ExampleBoxExact ==
    [][(PostProcessDetections /\ ~Malformed(predictions)) =>
          \A j \in 1..Len(result') :
              /\ BoxOfRow(result'[j], predictions.boxes)
              /\ SubSeq(predictions.boxes, 4 * IndexOf(result'[j]) + 1,
                        4 * IndexOf(result'[j]) + 4) = ExampleRow
                    => NearExampleBox(result'[j].bbox, 0)]_vars

\* C18, amended: the box of a kept entry is x = x1*320, y = y1*320,
\* width = (x2-x1)*320, height = (y2-y1)*320 of the float32 values of its row,
\* and the row nearest to [0.1, 0.2, 0.5, 0.6] gives {x:64, y:32, width:128,
\* height:128} to within 0.0001 of a pixel.
C18_BoxOfRow ==
    [][(PostProcessDetections /\ ~Malformed(predictions)) =>
          \A j \in 1..Len(result') :
              /\ BoxOfRow(result'[j], predictions.boxes)
              /\ SubSeq(predictions.boxes, 4 * IndexOf(result'[j]) + 1,
                        4 * IndexOf(result'[j]) + 4) = ExampleRow
                    => NearExampleBox(result'[j].bbox, Px \div 10000)]_vars

\* the example row has been decoded, to a box that is near the example's but
\* wider than 128 pixels and right of 64
C18_Witness ==
    /\ predictions.boxes = ExampleRow
    /\ Len(result) = 1
    /\ result[1].bbox.x > 64 * Px /\ result[1].bbox.width > 128 * Px
    /\ NearExampleBox(result[1].bbox, Px \div 10000)


\* C19: every detection in the history, decoded or simulated, has a box with
\* x >= 0, y >= 0, width > 0 and height > 0.
C19_BoxesValid ==
    \A i \in 1..Len(detectedVehicles) :
        LET bbox == detectedVehicles[i].bbox
        IN  bbox.x >= 0 /\ bbox.y >= 0 /\ bbox.width > 0 /\ bbox.height > 0


\* C20: at any time at most one capture -> detectVehicles cycle of the camera
\* component is in flight.
C20_CyclesNeverOverlap ==
    Cardinality({k \in DOMAIN cam : Capturing(k)}) <= 1


\* C22: once runRealDetection has returned, on its success path and on every
\* failure path, the cycle holds no tensor; between cycles no tensor is live.
C22_TensorsReleased ==
    /\ \A c \in DOMAIN cyc :
          cyc[c].pc \in {"idle", "record", "done"} => cyc[c].tensors = {}
    /\ (\A c \in DOMAIN cyc : ~InFlight(c)) => LiveTensors = {}


\* C23: in every state, whatever the interleaving of detect cycles, frame
\* requests, resets and reads, total is the length of the history and the
\* count of each category is the number of history entries of that category.
C23_CountsAgreeWithHistory ==
    /\ vehicleCount["total"] = Len(detectedVehicles)
    /\ \A t \in VehicleType :
          vehicleCount[t]
             = Cardinality({i \in 1..Len(detectedVehicles) : detectedVehicles[i].type = t})

\* a reader holds the counts of before a reset, and the store has since
\* recorded a cycle of two vehicles while another cycle is in flight
C23_Witness ==
    /\ held.obj = "copy" /\ held.val["total"] >= 1
    /\ held.val # vehicleCount
    /\ Len(recorded) = 1 /\ Len(detectedVehicles) = 2
    /\ detectedVehicles[1].type # detectedVehicles[2].type
    /\ \E c \in DOMAIN cyc : InFlight(c)


\* C21: after stopDetection has run, or the camera component has unmounted, no
\* step of a cycle that was in flight then changes counts or history, and no
\* onDetection callback is delivered for it.
C21_StopCancelsCycle ==
    [][\A k \in stopped :
          /\ cyc'[k] # cyc[k] => store' = store
          /\ ~OnDetection(k)]_vars

\* C25: at any time at most one interval timer is alive and its handle is the
\* one detectionIntervalRef holds, whatever the presses, isRecording changes
\* and renders; after stopDetection or the unmount none is alive.
C25_OneIntervalTimer ==
    /\ Cardinality(timers) <= 1
    /\ timers \subseteq {detectionIntervalRef}
    /\ ~mounted => timers = {}
    /\ (~isDetecting /\ rendered.isDetecting = isDetecting
          /\ "recording" \notin pendingEffects) => timers = {}


\* C24: once initializeService has finished, modelStatus is 'loaded' only if
\* isRealModelLoaded() is true, and it is 'fallback' whenever the model failed
\* to load and detections are simulated.
C24_StatusAgreesWithService ==
    /\ modelStatus = "loaded" => isModelLoaded
    /\ (modelStatus # "loading" /\ ~isModelLoaded) => modelStatus = "fallback"

====
